---- MODULE Spec2Model ----
(***************************************************************************)
(* A model of lib/registry.js: the wrapper around the REG command line.   *)
(*                                                                         *)
(* Text is modelled as a sequence of symbols.  A symbol is one character   *)
(* ("A", " ", "\\", ...) or one of the fixed vocabulary tokens of the      *)
(* source (a hive id, a long hive name, a value type id), which stands for *)
(* the run of word characters that spells it.                              *)
(***************************************************************************)
EXTENDS Integers, Sequences, FiniteSets

\* ------------------------------------------------------------------ bounds

\* the largest number of stdout chunks one process emits
MaxChunks == 3

\* the largest exit code a process reports (0 is success)
MaxExitCode == 2

\* the longest key passed to the constructor, in characters
MaxKeyLen == 4

\* the number of times the parent getter is followed
MaxParentSteps == 3

\* the most chunks each of the processes that run at once writes
ConcMaxChunks == 1

\* --------------------------------------------------------- fixed vocabulary

HKLM == "HKLM"
HKCU == "HKCU"
HKCR == "HKCR"
HKU == "HKU"
HKCC == "HKCC"
HIVES == <<HKLM, HKCU, HKCR, HKU, HKCC>>

REG_SZ == "REG_SZ"
REG_MULTI_SZ == "REG_MULTI_SZ"
REG_EXPAND_SZ == "REG_EXPAND_SZ"
REG_DWORD == "REG_DWORD"
REG_QWORD == "REG_QWORD"
REG_BINARY == "REG_BINARY"
REG_NONE == "REG_NONE"
REG_TYPES == <<REG_SZ, REG_MULTI_SZ, REG_EXPAND_SZ, REG_DWORD, REG_QWORD, REG_BINARY, REG_NONE>>

\* the alternatives of PATH_PATTERN's first group
LONG_HIVES == {"HKEY_LOCAL_MACHINE", "HKEY_CURRENT_USER", "HKEY_CLASSES_ROOT",
               "HKEY_USERS", "HKEY_CURRENT_CONFIG"}

\* Array.prototype.indexOf(x) == -1
indexOf(arr, x) == IF \E i \in 1..Len(arr) : arr[i] = x
                   THEN (CHOOSE i \in 1..Len(arr) : arr[i] = x /\ \A j \in 1..(i-1) : arr[j] # x) - 1
                   ELSE -1

\* ------------------------------------------------------ character classes

\* the regular expression class \s
IsSpace(c) == c \in {" ", "\t", "\r", "\n"}

\* the characters the regular expression dot does not match
IsLineTerminator(c) == c \in {"\r", "\n"}

\* the regular expression class [a-zA-Z0-9_]; the vocabulary tokens are runs of it
IsWord(c) == c \in {"A", "B", "C", "0", "_"} \cup LONG_HIVES
                   \cup {HIVES[i] : i \in 1..Len(HIVES)}
                   \cup {REG_TYPES[i] : i \in 1..Len(REG_TYPES)}

\* ------------------------------------------------------- string primitives

\* String.prototype.trim
RECURSIVE trimLeft(_)
trimLeft(s) == IF s # <<>> /\ IsSpace(Head(s)) THEN trimLeft(Tail(s)) ELSE s

RECURSIVE trimRight(_)
trimRight(s) == IF s # <<>> /\ IsSpace(s[Len(s)]) THEN trimRight(SubSeq(s, 1, Len(s) - 1)) ELSE s

trim(s) == trimRight(trimLeft(s))

\* String.prototype.split('\n'): the pieces between the newlines, in order
RECURSIVE split(_)
split(s) ==
  IF \E i \in 1..Len(s) : s[i] = "\n"
  THEN LET i == CHOOSE k \in 1..Len(s) : s[k] = "\n" /\ \A j \in 1..(k-1) : s[j] # "\n"
       IN  <<SubSeq(s, 1, i - 1)>> \o split(SubSeq(s, i + 1, Len(s)))
  ELSE <<s>>

\* the two bytes of the UTF-8 encoding of U+00E9, the character they decode to,
\* and the replacement character a byte that cannot be decoded is turned into
LeadByte == "0xC3"
ContinuationByte == "0xA9"
DecodedChar == "U+00E9"
ReplacementChar == "U+FFFD"

\* Buffer.prototype.toString(): the bytes of one chunk decoded as UTF-8.  Every
\* other symbol is a character of one byte; a lead byte without its continuation
\* byte, and a continuation byte without its lead byte, are replaced
RECURSIVE toString(_)
toString(data) ==
  IF data = <<>> THEN <<>>
  ELSE IF data[1] = LeadByte
  THEN IF Len(data) >= 2 /\ data[2] = ContinuationByte
       THEN <<DecodedChar>> \o toString(SubSeq(data, 3, Len(data)))
       ELSE <<ReplacementChar>> \o toString(Tail(data))
  ELSE IF data[1] = ContinuationByte
  THEN <<ReplacementChar>> \o toString(Tail(data))
  ELSE <<data[1]>> \o toString(Tail(data))

\* String.prototype.lastIndexOf('\\'), zero based, -1 when absent
lastIndexOf(s) == IF \E i \in 1..Len(s) : s[i] = "\\"
                  THEN (CHOOSE i \in 1..Len(s) : s[i] = "\\" /\ \A j \in (i+1)..Len(s) : s[j] # "\\") - 1
                  ELSE -1

\* ------------------------------------------------------ regular expressions

\* KEY_PATTERN = /(\\[a-zA-Z0-9_\s]+)*/ matched against the whole of s
KeySegments(s) ==
  /\ \A i \in 1..Len(s) : s[i] = "\\" \/ IsWord(s[i]) \/ IsSpace(s[i])
  /\ s # <<>> => s[1] = "\\"
  /\ \A i \in 1..Len(s) : s[i] = "\\" => (i < Len(s) /\ s[i+1] # "\\")

\* KEY_PATTERN.test(key): the pattern is not anchored, test() searches for a match
\* starting at any index, and the starred group also matches the empty string
KEY_PATTERN_test(key) ==
  \E i \in 0..Len(key) : \E j \in i..Len(key) : KeySegments(SubSeq(key, i + 1, j))

NoMatch == [matched |-> FALSE, g1 |-> <<>>, g2 |-> <<>>, g3 |-> <<>>]

\* PATH_PATTERN.exec(line): ^(long hive)(.*)$
PATH_PATTERN_exec(line) ==
  IF /\ line # <<>>
     /\ line[1] \in LONG_HIVES
     /\ \A k \in 2..Len(line) : ~IsLineTerminator(line[k])
  THEN [matched |-> TRUE, g1 |-> <<line[1]>>, g2 |-> Tail(line), g3 |-> <<>>]
  ELSE NoMatch

\* the class [a-zA-Z0-9_\s\\-] of ITEM_PATTERN's first group
IsItemNameChar(c) == IsWord(c) \/ IsSpace(c) \/ c = "\\" \/ c = "-"

\* the rest of ITEM_PATTERN after a first group that ends at i:
\* \s(type)\s+([^\s].*)$ ; j is the last of the separating whitespace
ItemTailAt(line, i, j) ==
  /\ i >= 1 /\ j >= i + 3 /\ j < Len(line)
  /\ \A k \in 1..i : IsItemNameChar(line[k])
  /\ IsSpace(line[i+1])
  /\ indexOf(REG_TYPES, line[i+2]) # -1
  /\ \A k \in (i+3)..j : IsSpace(line[k])
  /\ ~IsSpace(line[j+1])
  /\ \A k \in (j+2)..Len(line) : ~IsLineTerminator(line[k])

ItemSplitAt(line, i) == \E j \in (i+3)..(Len(line)-1) : ItemTailAt(line, i, j)

\* ITEM_PATTERN.exec(line): the first group is greedy, so of all the ways to match
\* the one with the longest first group is taken
ITEM_PATTERN_exec(line) ==
  IF \E i \in 1..Len(line) : ItemSplitAt(line, i)
  THEN LET i == CHOOSE k \in 1..Len(line) :
                  ItemSplitAt(line, k) /\ \A m \in (k+1)..Len(line) : ~ItemSplitAt(line, m)
           j == CHOOSE k \in (i+3)..(Len(line)-1) : ItemTailAt(line, i, k)
       IN  [matched |-> TRUE,
            g1 |-> SubSeq(line, 1, i),
            g2 |-> <<line[i+2]>>,
            g3 |-> SubSeq(line, j + 1, Len(line))]
  ELSE NoMatch

\* -------------------------------------------------------------- data model

\* new RegistryItem(host, hive, key, name, type, value)
RegistryItem(host, hive, key, name, type, value) ==
  [host |-> host, hive |-> hive, key |-> key, name |-> name, type |-> type, value |-> value]

NoObject == [host |-> "", hive |-> "", key |-> <<>>]

\* the constructor as it would be without the validation of the hive
Registry_noHiveCheck(options) ==
  LET _host == options.host
      _hive == IF options.hive = "" THEN HKLM ELSE options.hive
      _key  == options.key
  IN  [threw |-> FALSE, obj |-> [host |-> _host, hive |-> _hive, key |-> _key]]

\* new Registry(options): the private members and the validation of the options.
\* threw is TRUE when the constructor throws, and obj is the frozen object otherwise
Registry(options) ==
  LET _host == options.host
      _hive == IF options.hive = "" THEN HKLM ELSE options.hive
      _key  == options.key
  IN  IF indexOf(HIVES, _hive) = -1 THEN [threw |-> TRUE, obj |-> NoObject]
      ELSE IF ~KEY_PATTERN_test(_key) THEN [threw |-> TRUE, obj |-> NoObject]
      ELSE [threw |-> FALSE, obj |-> [host |-> _host, hive |-> _hive, key |-> _key]]

\* the getter Registry#path.  With a host the expression reads the identifier
\* host, which is bound nowhere (the member is _host): a ReferenceError
path(this) ==
  IF this.host = ""
  THEN [threw |-> FALSE, val |-> <<this.hive>> \o this.key]
  ELSE [threw |-> TRUE, val |-> <<>>]

\* the parent getter as it would be if the separator were kept
parent_keepsSeparator(this) ==
  LET i == lastIndexOf(this.key)
  IN  Registry([host |-> this.host, hive |-> this.hive,
                key |-> IF i = -1 THEN <<>> ELSE SubSeq(this.key, 1, i + 1)])

\* the getter Registry#parent: a new Registry of the key up to its last backslash.
\* _key.substring(0, i) is the first i characters
parent(this) ==
  LET i == lastIndexOf(this.key)
  IN  Registry([host |-> this.host, hive |-> this.hive,
                key |-> IF i = -1 THEN <<>> ELSE SubSeq(this.key, 1, i)])

\* ------------------------------------------------ callbacks and their arguments

\* the error argument: null, or the Error 'process exited with code N'
NullError == <<>>
ExitError(code) == <<code>>

Result(kind, items, keys, flag) == [kind |-> kind, items |-> items, keys |-> keys, flag |-> flag]
NullResult == Result("null", <<>>, <<>>, FALSE)
UndefinedResult == Result("undefined", <<>>, <<>>, FALSE)
ItemsResult(items) == Result("items", items, <<>>, FALSE)
ItemResult(item) == Result("item", <<item>>, <<>>, FALSE)
KeysResult(keys) == Result("keys", <<>>, keys, FALSE)
BooleanResult(flag) == Result("boolean", <<>>, <<>>, flag)

\* one invocation cb(err, res)
Invoke(err, res) == [err |-> err, res |-> res]

\* ------------------------------------------------------------------ values

\* the loop over the lines of values and get: trim, drop the empty lines and
\* the first line that is not empty
RECURSIVE collectItems(_, _, _)
collectItems(lines, line, lineNumber) ==
  IF line > Len(lines) THEN <<>>
  ELSE LET l == trim(lines[line])
       IN  IF Len(l) > 0
           THEN (IF lineNumber # 0 THEN <<l>> ELSE <<>>) \o collectItems(lines, line + 1, lineNumber + 1)
           ELSE collectItems(lines, line + 1, lineNumber)

\* the record as it would be if the type were taken from the first group
itemOfMatch_typeFromName(self, match) ==
  RegistryItem(self.host, self.hive, self.key, trim(match.g1), trim(match.g1)[1], match.g3)

\* the record made of one match of ITEM_PATTERN
itemOfMatch(self, match) ==
  RegistryItem(self.host, self.hive, self.key, trim(match.g1), trim(match.g2)[1], match.g3)

\* the loop over the items of values: one record for each line that matches
RECURSIVE matchItems(_, _, _)
matchItems(items, item, self) ==
  IF item > Len(items) THEN <<>>
  ELSE LET match == ITEM_PATTERN_exec(items[item])
       IN  (IF match.matched THEN <<itemOfMatch(self, match)>> ELSE <<>>)
           \o matchItems(items, item + 1, self)

\* values as it would be if the first line were not discarded
values_onClose_keepsFirstLine(code, buffer, self) ==
  IF code # 0
  THEN <<Invoke(ExitError(code), NullResult)>>
  ELSE <<Invoke(NullError, ItemsResult(matchItems(collectItems(split(buffer), 1, 1), 1, self)))>>

\* values: proc.on('close')
values_onClose(code, buffer, self) ==
  IF code # 0
  THEN <<Invoke(ExitError(code), NullResult)>>
  ELSE LET lines == split(buffer)
           items == collectItems(lines, 1, 0)
           result == matchItems(items, 1, self)
       IN  <<Invoke(NullError, ItemsResult(result))>>

\* values: proc.stdout.on('data')
values_onData(buffer, data) == buffer \o toString(data)

\* -------------------------------------------------------------------- keys

\* keys: proc.on('close')
keys_onClose(code) ==
  IF code # 0 THEN <<Invoke(ExitError(code), NullResult)>> ELSE <<>>

\* keys: proc.stdout.on('data')
keys_onData(buffer, data) == buffer \o toString(data)

\* the loop over the lines of keys: trim and drop the empty lines
RECURSIVE collectLines(_, _)
collectLines(lines, line) ==
  IF line > Len(lines) THEN <<>>
  ELSE LET l == trim(lines[line])
       IN  (IF Len(l) > 0 THEN <<l>> ELSE <<>>) \o collectLines(lines, line + 1)

\* the loop over the items of keys as it would be without the comparison of the
\* key with the key of this
RECURSIVE matchKeys_noSelfCheck(_, _, _)
matchKeys_noSelfCheck(items, item, self) ==
  IF item > Len(items) THEN [threw |-> FALSE, result |-> <<>>]
  ELSE LET match == PATH_PATTERN_exec(items[item])
           rest  == matchKeys_noSelfCheck(items, item + 1, self)
       IN  IF match.matched /\ match.g2 # <<>>
           THEN [threw |-> rest.threw,
                 result |-> <<[host |-> self.host, hive |-> self.hive, key |-> match.g2]>> \o rest.result]
           ELSE rest

\* the loop over the items of keys; threw is TRUE when a constructor throws
RECURSIVE matchKeys(_, _, _)
matchKeys(items, item, self) ==
  IF item > Len(items) THEN [threw |-> FALSE, result |-> <<>>]
  ELSE LET match == PATH_PATTERN_exec(items[item])
           key   == match.g2
           rest  == matchKeys(items, item + 1, self)
       IN  IF match.matched /\ key # <<>> /\ key # self.key
           THEN LET r == Registry([host |-> self.host, hive |-> self.hive, key |-> key])
                IN  IF r.threw THEN [threw |-> TRUE, result |-> <<>>]
                    ELSE [threw |-> rest.threw, result |-> <<r.obj>> \o rest.result]
           ELSE rest

\* keys: proc.stdout.on('end')
keys_onEnd(buffer, self) ==
  LET lines == split(buffer)
      items == collectLines(lines, 1)
      m     == matchKeys(items, 1, self)
  IN  IF m.threw THEN <<>> ELSE <<Invoke(NullError, KeysResult(m.result))>>

\* --------------------------------------------------------------------- get

\* get: proc.on('close')
get_onClose(code, buffer, self) ==
  IF code # 0
  THEN <<Invoke(ExitError(code), NullResult)>>
  ELSE LET lines == split(buffer)
           items == collectItems(lines, 1, 0)
           item  == IF Len(items) > 0 /\ items[1] # <<>> THEN items[1] ELSE <<>>
           match == ITEM_PATTERN_exec(item)
       IN  IF match.matched
           THEN <<Invoke(NullError, ItemResult(itemOfMatch(self, match)))>>
           ELSE <<Invoke(NullError, NullResult)>>

\* get: proc.stdout.on('data')
get_onData(buffer, data) == buffer \o toString(data)

\* ------------------------------------- set, remove, erase, create, delete

\* set: proc.on('close')
set_onClose(code) ==
  IF code # 0 THEN <<Invoke(ExitError(code), UndefinedResult)>> ELSE <<Invoke(NullError, UndefinedResult)>>

\* remove: proc.on('close')
remove_onClose(code) ==
  IF code # 0 THEN <<Invoke(ExitError(code), UndefinedResult)>> ELSE <<Invoke(NullError, UndefinedResult)>>

\* erase: proc.on('close')
erase_onClose(code) ==
  IF code # 0 THEN <<Invoke(ExitError(code), UndefinedResult)>> ELSE <<Invoke(NullError, UndefinedResult)>>

\* create: proc.on('close')
create_onClose(code) ==
  IF code # 0 THEN <<Invoke(ExitError(code), UndefinedResult)>> ELSE <<Invoke(NullError, UndefinedResult)>>

\* delete: proc.on('close')
delete_onClose(code) ==
  IF code # 0 THEN <<Invoke(ExitError(code), UndefinedResult)>> ELSE <<Invoke(NullError, UndefinedResult)>>

\* set, remove, erase, create, delete: proc.stdout.on('data') discards the output
discard_onData(buffer, data) == buffer

\* ------------------------------------------------- keyExists, valueExists

\* keyExists: the callback handed to values
keyExists_cb(inner) == Invoke(inner.err, BooleanResult(inner.err = NullError))

\* valueExists: the callback handed to get
valueExists_cb(inner) == Invoke(inner.err, BooleanResult(inner.err = NullError))

\* ------------------------------------------------------------------- inputs

\* the options the Registry objects of the model are constructed from
Hosts == {"", "srv"}
HiveOptions == {HKLM, HKCU}
KeyOptions == {<<>>, <<"\\", "A">>}

\* the value names, value types and values the operations are called with
Names == {<<>>, <<"A">>}
Types == {REG_SZ, REG_DWORD, "REG_FOO"}
Values == {<<"B">>}

\* the exit codes of the REG process
ExitCodes == 0..MaxExitCode

\* the chunks of output the REG process writes to its stdout
HeaderRoot == <<"HKEY_LOCAL_MACHINE", "\r", "\n">>
HeaderA == <<"HKEY_LOCAL_MACHINE", "\\", "A", "\r", "\n">>
BlankLine == <<"\r", "\n">>
ValueLine == <<" ", " ", "A", " ", " ", "REG_SZ", " ", " ", "B", " ", "B", "\r", "\n">>
\* a value with empty data, which is outside the grammar, and a value line
EmptyAndDwordLines == <<" ", "C", " ", "REG_SZ", "\r", "\n",
                        " ", "B", "-", "A", " ", "REG_DWORD", " ", "0", "\n">>
ChildLine == <<"HKEY_LOCAL_MACHINE", "\\", "A", "\\", "B", "\r", "\n">>
DeepFragment == <<"HKEY_CURRENT_USER", "\\", "A", "\\", "B", "\\", "C">>
BannerLine == <<".", " ", "A", "\n">>
HiveNamedValue == <<"HKEY_USERS", " ", "REG_SZ", " ", "B", "\n">>

Chunks == {HeaderRoot, HeaderA, BlankLine, ValueLine, EmptyAndDwordLines, ChildLine,
           DeepFragment, BannerLine, HiveNamedValue}

\* -------------------------------------------------------------------- state

VARIABLES
  self,          \* the Registry object the operation is called on
  status,        \* "idle", "running" (process spawned), "closed", "thrown"
  exception,     \* what was thrown: "none", "TypeError", "Error", "ReferenceError"
  op,            \* the operation called, "none" before the call
  cbIsFunction,  \* typeof cb === 'function'
  args,          \* the argument vector handed to spawn('REG', args)
  buffer,        \* the operation's buffer of captured output
  chunks,        \* the number of chunks the process has written
  stdoutEnded,   \* the process has closed its stdout
  exitCode,      \* the exit code reported by 'close', -1 before
  delivered,     \* the invocations of cb so far, in order
  options,       \* the options the Registry object was constructed from
  params,        \* the name, type and value the operation was called with
  emitted,       \* what the process of values, keys or get has written so far
  steps,         \* the number of times the parent getter has been followed
  procs,         \* the calls in flight at once, each with its own process
  rt,            \* a set followed by a get of the same name
  output         \* the bytes the process writes in all, when they are fixed beforehand

\* the variables of one call on one Registry object
callVars == <<self, status, exception, op, cbIsFunction, args, buffer, chunks,
              stdoutEnded, exitCode, delivered, options, params, emitted>>

vars == <<self, status, exception, op, cbIsFunction, args, buffer, chunks,
          stdoutEnded, exitCode, delivered, options, params, emitted, steps, procs, rt,
          output>>

\* no parameters: the call has not been made, or the operation has none
NoParams == [name |-> <<>>, type |-> "", value |-> <<>>]
Params(name, type, value) == [name |-> name, type |-> type, value |-> value]

\* the state of the parts of the model a specification does not use
NoProcs == <<>>
NoRoundTrip == [phase |-> "none", name |-> <<>>, type |-> "", value |-> <<>>]

Init ==
  /\ \E host \in Hosts, hive \in HiveOptions, key \in KeyOptions :
       LET r == Registry([host |-> host, hive |-> hive, key |-> key])
       IN  /\ ~r.threw
           /\ self = r.obj
           /\ options = [host |-> host, hive |-> hive, key |-> key]
  /\ status = "idle"
  /\ exception = "none"
  /\ op = "none"
  /\ cbIsFunction = FALSE
  /\ args = <<>>
  /\ buffer = <<>>
  /\ chunks = 0
  /\ stdoutEnded = FALSE
  /\ exitCode = -1
  /\ delivered = <<>>
  /\ params = NoParams
  /\ emitted = <<>>
  /\ steps = 0
  /\ procs = NoProcs
  /\ rt = NoRoundTrip
  /\ output = <<>>

\* a throw statement reached before the process is spawned
Throw(o, p, cb, e) ==
  /\ status' = "thrown"
  /\ exception' = e
  /\ op' = o
  /\ params' = p
  /\ cbIsFunction' = cb
  /\ UNCHANGED <<self, args, buffer, chunks, stdoutEnded, exitCode, delivered>>
  /\ UNCHANGED <<options, emitted, steps, procs, rt, output>>

\* spawn('REG', args, ...) and the registration of the listeners
Spawn(o, p, cb, argv) ==
  /\ status' = "running"
  /\ op' = o
  /\ params' = p
  /\ cbIsFunction' = cb
  /\ args' = argv
  /\ UNCHANGED <<self, exception, buffer, chunks, stdoutEnded, exitCode, delivered>>
  /\ UNCHANGED <<options, emitted, steps, procs, rt, output>>

\* -------------------------------------------------------------- operations

\* get: var args = [ 'QUERY', this.path, '/v', name ]
get_args(thisPath, name) == <<<<"QUERY">>, thisPath, <<"/v">>, name>>

\* the argument vector of set as it would be if /ve were never used
set_args_alwaysNamed(thisPath, name, type, value) ==
  <<<<"ADD">>, thisPath, <<"/v">>, name, <<"/t">>, <<type>>, <<"/d">>, value, <<"/f">>>>

\* set: the argument vector, /ve for the name that is == ''
set_args(thisPath, name, type, value) ==
  <<<<"ADD">>, thisPath>>
  \o (IF name = <<>> THEN <<<<"/ve">>>> ELSE <<<<"/v">>, name>>)
  \o <<<<"/t">>, <<type>>, <<"/d">>, value, <<"/f">>>>

\* remove: the argument vector, /ve for the name that is falsy
remove_args(thisPath, name) ==
  IF name # <<>>
  THEN <<<<"DELETE">>, thisPath, <<"/f">>, <<"/v">>, name>>
  ELSE <<<<"DELETE">>, thisPath, <<"/f">>, <<"/ve">>>>

values(cb) ==
  /\ status = "idle"
  /\ IF ~cb THEN Throw("values", NoParams, cb, "TypeError")
     ELSE IF path(self).threw THEN Throw("values", NoParams, cb, "ReferenceError")
     ELSE Spawn("values", NoParams, cb, <<<<"QUERY">>, path(self).val>>)

keys(cb) ==
  /\ status = "idle"
  /\ IF ~cb THEN Throw("keys", NoParams, cb, "TypeError")
     ELSE IF path(self).threw THEN Throw("keys", NoParams, cb, "ReferenceError")
     ELSE Spawn("keys", NoParams, cb, <<<<"QUERY">>, path(self).val>>)

get(name, cb) ==
  /\ status = "idle"
  /\ IF ~cb THEN Throw("get", Params(name, "", <<>>), cb, "TypeError")
     ELSE IF path(self).threw THEN Throw("get", Params(name, "", <<>>), cb, "ReferenceError")
     ELSE Spawn("get", Params(name, "", <<>>), cb, get_args(path(self).val, name))

\* set as it would be without the validation of the type
set_noTypeCheck(name, type, value, cb) ==
  /\ status = "idle"
  /\ IF ~cb THEN Throw("set", Params(name, type, value), cb, "TypeError")
     ELSE IF path(self).threw THEN Throw("set", Params(name, type, value), cb, "ReferenceError")
     ELSE Spawn("set", Params(name, type, value), cb, set_args(path(self).val, name, type, value))

set(name, type, value, cb) ==
  /\ status = "idle"
  /\ IF ~cb THEN Throw("set", Params(name, type, value), cb, "TypeError")
     ELSE IF indexOf(REG_TYPES, type) = -1 THEN Throw("set", Params(name, type, value), cb, "Error")
     ELSE IF path(self).threw THEN Throw("set", Params(name, type, value), cb, "ReferenceError")
     ELSE Spawn("set", Params(name, type, value), cb, set_args(path(self).val, name, type, value))

remove(name, cb) ==
  /\ status = "idle"
  /\ IF ~cb THEN Throw("remove", Params(name, "", <<>>), cb, "TypeError")
     ELSE IF path(self).threw THEN Throw("remove", Params(name, "", <<>>), cb, "ReferenceError")
     ELSE Spawn("remove", Params(name, "", <<>>), cb, remove_args(path(self).val, name))

erase(cb) ==
  /\ status = "idle"
  /\ IF ~cb THEN Throw("erase", NoParams, cb, "TypeError")
     ELSE IF path(self).threw THEN Throw("erase", NoParams, cb, "ReferenceError")
     ELSE Spawn("erase", NoParams, cb, <<<<"DELETE">>, path(self).val, <<"/f">>, <<"/va">>>>)

create(cb) ==
  /\ status = "idle"
  /\ IF ~cb THEN Throw("create", NoParams, cb, "TypeError")
     ELSE IF path(self).threw THEN Throw("create", NoParams, cb, "ReferenceError")
     ELSE Spawn("create", NoParams, cb, <<<<"ADD">>, path(self).val>>)

delete(cb) ==
  /\ status = "idle"
  /\ IF ~cb THEN Throw("delete", NoParams, cb, "TypeError")
     ELSE IF path(self).threw THEN Throw("delete", NoParams, cb, "ReferenceError")
     ELSE Spawn("delete", NoParams, cb, <<<<"DELETE">>, path(self).val, <<"/f">>>>)

\* keyExists calls this.values with a function of its own and does not look at cb
keyExists(cb) ==
  /\ status = "idle"
  /\ IF path(self).threw THEN Throw("keyExists", NoParams, cb, "ReferenceError")
     ELSE Spawn("keyExists", NoParams, cb, <<<<"QUERY">>, path(self).val>>)

\* valueExists calls this.get with a function of its own and does not look at cb
valueExists(name, cb) ==
  /\ status = "idle"
  /\ IF path(self).threw THEN Throw("valueExists", Params(name, "", <<>>), cb, "ReferenceError")
     ELSE Spawn("valueExists", Params(name, "", <<>>), cb, <<<<"QUERY">>, path(self).val, <<"/v">>, name>>)

\* ------------------------------------------------------- the process events

\* the method whose listeners are registered on the process of operation o
method(o) == CASE o = "keyExists" -> "values"
               [] o = "valueExists" -> "get"
               [] OTHER -> o

\* the listener of 'data' of method m
onData(m, buf, data) ==
  CASE m = "values" -> values_onData(buf, data)
    [] m = "keys" -> keys_onData(buf, data)
    [] m = "get" -> get_onData(buf, data)
    [] OTHER -> discard_onData(buf, data)

\* the listener of 'close' of method m
onClose(m, code, buf, this) ==
  CASE m = "values" -> values_onClose(code, buf, this)
    [] m = "keys" -> keys_onClose(code)
    [] m = "get" -> get_onClose(code, buf, this)
    [] m = "set" -> set_onClose(code)
    [] m = "remove" -> remove_onClose(code)
    [] m = "erase" -> erase_onClose(code)
    [] m = "create" -> create_onClose(code)
    [] m = "delete" -> delete_onClose(code)

\* the invocation of the caller's cb that one invocation of the method's callback makes
callerInvocation(o, inner) ==
  CASE o = "keyExists" -> keyExists_cb(inner)
    [] o = "valueExists" -> valueExists_cb(inner)
    [] OTHER -> inner

\* the listeners invoke the method's callback; calling a cb that is no function throws
Deliver(invocations) ==
  IF invocations # <<>> /\ ~cbIsFunction
  THEN /\ exception' = "TypeError"
       /\ delivered' = delivered
  ELSE /\ exception' = exception
       /\ delivered' = delivered \o [i \in 1..Len(invocations) |-> callerInvocation(op, invocations[i])]

\* the process writes a chunk to its stdout: 'data'
stdout_data(data) ==
  /\ status = "running"
  /\ ~stdoutEnded
  /\ chunks < MaxChunks
  /\ chunks' = chunks + 1
  /\ buffer' = onData(method(op), buffer, data)
  /\ emitted' = IF method(op) \in {"values", "keys", "get"} THEN emitted \o data ELSE emitted
  /\ UNCHANGED <<self, status, exception, op, cbIsFunction, args, stdoutEnded, exitCode, delivered>>
  /\ UNCHANGED <<options, params, steps, procs, rt, output>>

\* the process closes its stdout: 'end'
stdout_end ==
  /\ status = "running"
  /\ ~stdoutEnded
  /\ stdoutEnded' = TRUE
  /\ Deliver(IF method(op) = "keys" THEN keys_onEnd(buffer, self) ELSE <<>>)
  /\ UNCHANGED <<self, status, op, cbIsFunction, args, buffer, chunks, exitCode>>
  /\ UNCHANGED <<options, params, emitted, steps, procs, rt, output>>

\* the process has exited and its streams are closed: 'close'
close(code) ==
  /\ status = "running"
  /\ stdoutEnded
  /\ status' = "closed"
  /\ exitCode' = code
  /\ Deliver(onClose(method(op), code, buffer, self))
  /\ UNCHANGED <<self, op, cbIsFunction, args, buffer, chunks, stdoutEnded>>
  /\ UNCHANGED <<options, params, emitted, steps, procs, rt, output>>

Next ==
  \/ \E cb \in BOOLEAN : values(cb)
  \/ \E cb \in BOOLEAN : keys(cb)
  \/ \E name \in Names, cb \in BOOLEAN : get(name, cb)
  \/ \E name \in Names, type \in Types, value \in Values, cb \in BOOLEAN : set(name, type, value, cb)
  \/ \E name \in Names, cb \in BOOLEAN : remove(name, cb)
  \/ \E cb \in BOOLEAN : erase(cb)
  \/ \E cb \in BOOLEAN : create(cb)
  \/ \E cb \in BOOLEAN : delete(cb)
  \/ \E cb \in BOOLEAN : keyExists(cb)
  \/ \E name \in Names, cb \in BOOLEAN : valueExists(name, cb)
  \/ \E data \in Chunks : stdout_data(data)
  \/ stdout_end
  \/ \E code \in ExitCodes : close(code)

Spec == Init /\ [][Next]_vars

\* the process closes its stdout and exits
FairSpec == Spec /\ WF_vars(stdout_end) /\ WF_vars(\E code \in ExitCodes : close(code))

\* --------------------------------------- construction and the parent getter

\* the options a caller may pass to the constructor, the invalid ones included
KeyAlphabet == {"\\", "A", " ", "."}
AnyKeys == UNION {[1..n -> KeyAlphabet] : n \in 0..MaxKeyLen}
AnyHives == {"", HKLM, HKCU, "HKEY_LOCAL_MACHINE", "HKXX"}

\* before new Registry(options)
ObjectInit ==
  /\ options \in [host : Hosts, hive : AnyHives, key : AnyKeys]
  /\ self = NoObject
  /\ status = "new"
  /\ exception = "none"
  /\ op = "none"
  /\ cbIsFunction = FALSE
  /\ args = <<>>
  /\ buffer = <<>>
  /\ chunks = 0
  /\ stdoutEnded = FALSE
  /\ exitCode = -1
  /\ delivered = <<>>
  /\ params = NoParams
  /\ emitted = <<>>
  /\ steps = 0
  /\ procs = NoProcs
  /\ rt = NoRoundTrip
  /\ output = <<>>

\* new Registry(options): the object, or the Error of the validation
construct ==
  /\ status = "new"
  /\ LET r == Registry(options)
     IN  IF r.threw
         THEN /\ status' = "thrown"
              /\ exception' = "Error"
              /\ self' = self
         ELSE /\ status' = "idle"
              /\ exception' = exception
              /\ self' = r.obj
  /\ UNCHANGED <<op, cbIsFunction, args, buffer, chunks, stdoutEnded, exitCode, delivered>>
  /\ UNCHANGED <<options, params, emitted, steps, procs, rt, output>>

\* reg = reg.parent
read_parent ==
  /\ status = "idle"
  /\ steps < MaxParentSteps
  /\ steps' = steps + 1
  /\ LET r == parent(self)
     IN  IF r.threw
         THEN /\ status' = "thrown"
              /\ exception' = "Error"
              /\ self' = self
         ELSE /\ status' = status
              /\ exception' = exception
              /\ self' = r.obj
  /\ UNCHANGED <<op, cbIsFunction, args, buffer, chunks, stdoutEnded, exitCode, delivered>>
  /\ UNCHANGED <<options, params, emitted, procs, rt, output>>

\* an object is constructed, its parent is followed, and the key is created
ObjectNext ==
  \/ construct
  \/ read_parent
  \/ \E cb \in BOOLEAN : create(cb)
  \/ stdout_end
  \/ \E code \in ExitCodes : close(code)

ObjectSpec == ObjectInit /\ [][ObjectNext]_vars

\* ------------------------------------------------- several calls in flight

\* the calls, the operations called and the Locations they are called on
CallIds == {1, 2}
ConcOps == {"values", "keys", "get", "create"}
ConcObjects == {[host |-> "", hive |-> HKLM, key |-> <<>>],
                [host |-> "", hive |-> HKLM, key |-> <<"\\", "A">>]}
ConcChunks == {HeaderA, ValueLine, ChildLine}

\* a call that has not been made: each call has a process, a buffer and a self
\* of its own, the variables of the closure of its listeners
NoCall ==
  [status |-> "idle", op |-> "none", self |-> NoObject, buffer |-> <<>>, emitted |-> <<>>,
   chunks |-> 0, stdoutEnded |-> FALSE, exitCode |-> -1, delivered |-> <<>>,
   overlapped |-> FALSE]

\* another call is in flight
OthersRunning(c) == \E d \in CallIds \ {c} : procs[d].status = "running"

\* the state of everything outside the calls in flight
ConcIdle ==
  /\ self = NoObject
  /\ options = [host |-> "", hive |-> "", key |-> <<>>]
  /\ status = "idle"
  /\ exception = "none"
  /\ op = "none"
  /\ cbIsFunction = FALSE
  /\ args = <<>>
  /\ buffer = <<>>
  /\ chunks = 0
  /\ stdoutEnded = FALSE
  /\ exitCode = -1
  /\ delivered = <<>>
  /\ params = NoParams
  /\ emitted = <<>>
  /\ steps = 0
  /\ rt = NoRoundTrip
  /\ output = <<>>

ConcInit ==
  /\ ConcIdle
  /\ procs = [c \in CallIds |-> NoCall]

\* call c is made, with a function as cb: spawn, buffer = '', self = this
conc_call(c, this, o) ==
  /\ procs[c].status = "idle"
  /\ procs' = [procs EXCEPT ![c] = [NoCall EXCEPT !.status = "running", !.op = o, !.self = this]]
  /\ UNCHANGED <<callVars, steps, rt, output>>

\* 'data' as it would be if the calls appended to one buffer
conc_data_sharedBuffer(c, data) ==
  /\ procs[c].status = "running"
  /\ ~procs[c].stdoutEnded
  /\ procs[c].chunks < ConcMaxChunks
  /\ procs' = [d \in CallIds |->
                IF d = c
                THEN [procs[d] EXCEPT !.chunks = @ + 1,
                                      !.buffer = onData(method(procs[d].op), @, data),
                                      !.emitted = @ \o data,
                                      !.overlapped = @ \/ OthersRunning(c)]
                ELSE [procs[d] EXCEPT !.buffer = @ \o data]]
  /\ UNCHANGED <<callVars, steps, rt, output>>

\* the process of call c writes a chunk: the 'data' listener of call c
conc_data(c, data) ==
  /\ procs[c].status = "running"
  /\ ~procs[c].stdoutEnded
  /\ procs[c].chunks < ConcMaxChunks
  /\ procs' = [procs EXCEPT ![c].chunks = @ + 1,
                            ![c].buffer = onData(method(procs[c].op), @, data),
                            ![c].emitted = @ \o data,
                            ![c].overlapped = @ \/ OthersRunning(c)]
  /\ UNCHANGED <<callVars, steps, rt, output>>

\* the process of call c closes its stdout: the 'end' listener of call c
conc_end(c) ==
  /\ procs[c].status = "running"
  /\ ~procs[c].stdoutEnded
  /\ procs' = [procs EXCEPT ![c].stdoutEnded = TRUE,
                            ![c].delivered = @ \o (IF method(procs[c].op) = "keys"
                                                   THEN keys_onEnd(procs[c].buffer, procs[c].self)
                                                   ELSE <<>>),
                            ![c].overlapped = @ \/ OthersRunning(c)]
  /\ UNCHANGED <<callVars, steps, rt, output>>

\* the process of call c has exited: the 'close' listener of call c
conc_close(c, code) ==
  /\ procs[c].status = "running"
  /\ procs[c].stdoutEnded
  /\ procs' = [procs EXCEPT ![c].status = "closed",
                            ![c].exitCode = code,
                            ![c].delivered = @ \o onClose(method(procs[c].op), code,
                                                          procs[c].buffer, procs[c].self),
                            ![c].overlapped = @ \/ OthersRunning(c)]
  /\ UNCHANGED <<callVars, steps, rt, output>>

ConcNext ==
  \/ \E c \in CallIds, this \in ConcObjects, o \in ConcOps : conc_call(c, this, o)
  \/ \E c \in CallIds, data \in ConcChunks : conc_data(c, data)
  \/ \E c \in CallIds : conc_end(c)
  \/ \E c \in CallIds, code \in ExitCodes : conc_close(c, code)

ConcSpec == ConcInit /\ [][ConcNext]_vars

\* ------------------------------------------------------- set followed by get

\* the names and values set is called with: a name with a hyphen, with a space
\* and with a dot, a value with a space inside and with a space in front
RoundTripNames == {<<"A">>, <<"A", "-", "B">>, <<"A", " ", "B">>, <<"A", ".", "B">>}
RoundTripTypes == {REG_TYPES[i] : i \in 1..Len(REG_TYPES)}
RoundTripValues == {<<"B">>, <<"B", " ", "B">>, <<" ", "B">>}

\* the long name REG prints for a hive
LongHive(hive) ==
  CASE hive = HKLM -> "HKEY_LOCAL_MACHINE"
    [] hive = HKCU -> "HKEY_CURRENT_USER"
    [] hive = HKCR -> "HKEY_CLASSES_ROOT"
    [] hive = HKU -> "HKEY_USERS"
    [] hive = HKCC -> "HKEY_CURRENT_CONFIG"

\* REG QUERY path /v name of a stored value: a header line, the path of the key,
\* and one value line
ToolEcho(this, name, type, value) ==
  <<LongHive(this.hive)>> \o this.key \o <<"\r", "\n">>
  \o <<" ", " ", " ", " ">> \o name \o <<" ", " ", " ", " ", type, " ", " ", " ", " ">>
  \o value \o <<"\r", "\n">>

\* set has succeeded and get(name, cb) is called on the same object with the name
\* of the set: a new process, and a new buffer
get_afterSet ==
  /\ op = "set" /\ status = "closed"
  /\ delivered = <<Invoke(NullError, UndefinedResult)>>
  /\ rt' = [phase |-> "get", name |-> params.name, type |-> params.type, value |-> params.value]
  /\ op' = "get"
  /\ params' = Params(params.name, "", <<>>)
  /\ status' = "running"
  /\ args' = get_args(path(self).val, params.name)
  /\ buffer' = <<>>
  /\ emitted' = <<>>
  /\ chunks' = 0
  /\ stdoutEnded' = FALSE
  /\ exitCode' = -1
  /\ delivered' = <<>>
  /\ UNCHANGED <<self, options, exception, cbIsFunction, steps, procs, output>>

\* the process of the get writes the stored value
reg_query ==
  /\ op = "get" /\ rt.phase = "get"
  /\ chunks = 0
  /\ stdout_data(ToolEcho(self, rt.name, rt.type, rt.value))

RoundTripNext ==
  \/ \E name \in RoundTripNames, type \in RoundTripTypes, value \in RoundTripValues :
        set(name, type, value, TRUE)
  \/ get_afterSet
  \/ reg_query
  \/ stdout_end
  \/ \E code \in ExitCodes : close(code)

RoundTripSpec == Init /\ [][RoundTripNext]_vars

\* ------------------------------------------- one output in several chunks

\* the outputs that are split: a value and a subkey with a character of two
\* bytes, and an output of one-byte characters only
AccentedValue ==
  HeaderA \o <<" ", "A", " ", "REG_SZ", " ", LeadByte, ContinuationByte, "\r", "\n">>
AccentedChild == <<"HKEY_LOCAL_MACHINE", "\\", "A", "\\", LeadByte, ContinuationByte, "\n">>
PlainValue == HeaderA \o ValueLine
SplitOutputs == {AccentedValue, AccentedChild, PlainValue}

\* a Registry object, and the bytes its next process is going to write
SplitInit ==
  /\ \E host \in Hosts, hive \in HiveOptions, key \in KeyOptions :
       LET r == Registry([host |-> host, hive |-> hive, key |-> key])
       IN  /\ ~r.threw
           /\ self = r.obj
           /\ options = [host |-> host, hive |-> hive, key |-> key]
  /\ output \in SplitOutputs
  /\ status = "idle"
  /\ exception = "none"
  /\ op = "none"
  /\ cbIsFunction = FALSE
  /\ args = <<>>
  /\ buffer = <<>>
  /\ chunks = 0
  /\ stdoutEnded = FALSE
  /\ exitCode = -1
  /\ delivered = <<>>
  /\ params = NoParams
  /\ emitted = <<>>
  /\ steps = 0
  /\ procs = NoProcs
  /\ rt = NoRoundTrip

\* the next bytes of the output arrive as one chunk, of any length: none, a part
\* of a line, a part of a character
split_data ==
  /\ method(op) \in {"values", "keys", "get"}
  /\ \E n \in 0..(Len(output) - Len(emitted)) :
       stdout_data(SubSeq(output, Len(emitted) + 1, Len(emitted) + n))

\* the stdout ends when all of the output was written
split_end ==
  /\ emitted = output
  /\ stdout_end

SplitNext ==
  \/ values(TRUE)
  \/ keys(TRUE)
  \/ \E name \in Names : get(name, TRUE)
  \/ split_data
  \/ split_end
  \/ \E code \in ExitCodes : close(code)

SplitSpec == SplitInit /\ [][SplitNext]_vars

\* ------------------------------------------------ the text a parser is given

\* the trimmed lines of the captured output that are not empty, in order
NonEmptyLines(buf) ==
  LET lines == split(buf)
  IN  SelectSeq([i \in 1..Len(lines) |-> trim(lines[i])], LAMBDA l : l # <<>>)

\* the lines left after the first one is discarded
RemainingLines(buf) ==
  IF NonEmptyLines(buf) = <<>> THEN <<>> ELSE Tail(NonEmptyLines(buf))

\* line is made of a name, one whitespace, a type token, whitespace and a value
IsValueLine(line) == \E i \in 1..Len(line) : \E j \in 1..Len(line) : ItemTailAt(line, i, j)

\* the lines of a values or get output that follow the value-line grammar
ValueLines(buf) == SelectSeq(RemainingLines(buf), IsValueLine)

\* record r is read off line: the value is the rest of the line after the type
\* token and the whitespace that follows it
IsRecordOf(r, line, this) ==
  \E i \in 1..Len(line) : \E j \in 1..Len(line) :
    /\ ItemTailAt(line, i, j)
    /\ r.name = trim(SubSeq(line, 1, i))
    /\ r.type = line[i+2]
    /\ r.value = SubSeq(line, j + 1, Len(line))
    /\ r.host = this.host /\ r.hive = this.hive /\ r.key = this.key

\* child is base followed by exactly one further segment
IsDirectChild(child, base) ==
  /\ Len(child) >= Len(base) + 2
  /\ SubSeq(child, 1, Len(base)) = base
  /\ child[Len(base) + 1] = "\\"
  /\ \A i \in (Len(base) + 2)..Len(child) : child[i] # "\\"

\* the operations that report a failure of the process as an error
FailingOps == {"values", "keys", "get", "set", "remove", "erase", "create", "delete"}

\* the call was made with a completion handler and with valid parameters
Started == op # "none" /\ cbIsFunction /\ exception \notin {"TypeError", "Error"}

\* an invocation that reports nothing found: no error and no record
IsNotFound(inv) ==
  /\ inv.err = NullError
  /\ \/ inv.res.kind = "null"
     \/ inv.res.kind = "items" /\ inv.res.items = <<>>
     \/ inv.res.kind = "keys" /\ inv.res.keys = <<>>

\* ------------------------------------------------------------------- claims

\* C1: the completion handler of a call is invoked at most once, whatever the
\* process events are.
C1_AtMostOneCompletion == Len(delivered) <= 1

\* C2: when the process of values, keys, get, set, remove, erase, create or delete
\* exits with a code N that is not 0, the handler receives an error carrying N and
\* is never given a null error.
C2_NonZeroExitIsAnError ==
  (status = "closed" /\ exitCode # 0 /\ op \in FailingOps)
    => /\ \E i \in 1..Len(delivered) : delivered[i].err = ExitError(exitCode)
       /\ \A i \in 1..Len(delivered) : delivered[i].err # NullError

\* C3: every operation started on a valid Location, with or without a host,
\* eventually invokes its completion handler, given that the process closes its
\* stdout and exits.
C3_EventuallyResolves == Started ~> (Len(delivered) > 0)

\* C4: keyExists delivers exists = false with a null error when the process fails,
\* and exists = true with a null error when it exits with code 0.
C4_KeyExistsMapsFailureToFalse ==
  (op = "keyExists" /\ cbIsFunction /\ status = "closed")
    => delivered = <<Invoke(NullError, BooleanResult(exitCode = 0))>>

\* C5: valueExists delivers exists = true exactly when get, given the same exit
\* code and output, delivers a ValueRecord.
C5_ValueExistsAgreesWithGet ==
  (op = "valueExists" /\ cbIsFunction /\ status = "closed")
    => /\ Len(delivered) = 1
       /\ delivered[1].res.kind = "boolean"
       /\ delivered[1].res.flag = (get_onClose(exitCode, buffer, self)[1].res.kind = "item")

\* C6: with exit code 0 and an output that yields no record, get delivers (null,
\* null) and values and keys deliver (null, empty sequence); a call whose process
\* failed is never given that not-found outcome.
C6_EmptyResultIsNotAnError ==
  /\ (op = "get" /\ status = "closed" /\ exitCode = 0 /\ ValueLines(buffer) = <<>>)
       => delivered = <<Invoke(NullError, NullResult)>>
  /\ (op = "values" /\ status = "closed" /\ exitCode = 0 /\ ValueLines(buffer) = <<>>)
       => delivered = <<Invoke(NullError, ItemsResult(<<>>))>>
  /\ (op = "keys" /\ status = "closed" /\ exitCode = 0
        /\ \A i \in 1..Len(NonEmptyLines(buffer)) : NonEmptyLines(buffer)[i][1] \notin LONG_HIVES)
       => delivered = <<Invoke(NullError, KeysResult(<<>>))>>
  /\ (op \in {"get", "values", "keys"} /\ status = "closed" /\ exitCode # 0)
       => \A i \in 1..Len(delivered) : ~IsNotFound(delivered[i])

\* C7: with exit code 0, get delivers the record of the first line after the
\* discarded one that follows the value-line grammar, and null only when no such
\* line follows the grammar.
C7_GetDeliversFirstMatchingLine ==
  (op = "get" /\ status = "closed" /\ exitCode = 0)
    => /\ Len(delivered) = 1
       /\ delivered[1].err = NullError
       /\ IF ValueLines(buffer) = <<>>
          THEN delivered[1].res.kind = "null"
          ELSE /\ delivered[1].res.kind = "item"
               /\ IsRecordOf(delivered[1].res.items[1], ValueLines(buffer)[1], self)

\* C8: with exit code 0, values delivers one record for each line, after the
\* discarded first one, that follows the value-line grammar, in the order of the
\* output, each value being the rest of its line after the type token and the
\* whitespace that follows it.
C8_ValuesDeliversTheValueLines ==
  (op = "values" /\ status = "closed" /\ exitCode = 0)
    => /\ Len(delivered) = 1
       /\ delivered[1].err = NullError
       /\ delivered[1].res.kind = "items"
       /\ Len(delivered[1].res.items) = Len(ValueLines(buffer))
       /\ \A k \in 1..Len(ValueLines(buffer)) :
            IsRecordOf(delivered[1].res.items[k], ValueLines(buffer)[k], self)

\* C8 witness: values has delivered two records, the first with whitespace inside
\* its value, from an output that also holds a line outside the grammar.
C8_Witness ==
  /\ op = "values" /\ status = "closed" /\ exitCode = 0
  /\ Len(RemainingLines(buffer)) > Len(ValueLines(buffer))
  /\ Len(delivered) = 1
  /\ Len(delivered[1].res.items) = 2
  /\ delivered[1].res.items[1].value = <<"B", " ", "B">>
  /\ delivered[1].res.items[2].type = REG_DWORD

\* C9: every Location keys delivers is a direct child of the queried Location.
C9_KeysDeliversDirectChildren ==
  op = "keys"
    => \A i \in 1..Len(delivered) : \A k \in 1..Len(delivered[i].res.keys) :
         IsDirectChild(delivered[i].res.keys[k].key, self.key)

\* C10: no Location keys delivers has the key of the queried Location.
C10_KeysExcludesTheQueriedKey ==
  op = "keys"
    => \A i \in 1..Len(delivered) : \A k \in 1..Len(delivered[i].res.keys) :
         delivered[i].res.keys[k].key # self.key

\* C10 witness: keys has delivered a subkey from an output that echoes the long
\* form path of the queried key.
C10_Witness ==
  /\ op = "keys" /\ stdoutEnded
  /\ \E i \in 1..Len(NonEmptyLines(buffer)) :
       /\ NonEmptyLines(buffer)[i][1] \in LONG_HIVES
       /\ Tail(NonEmptyLines(buffer)[i]) = self.key
  /\ Len(delivered) >= 1
  /\ delivered[1].res.keys # <<>>

\* ------------------------------------------------- the grammar of a key

\* the number of backslashes of a key: of a key of the grammar, its segments
Segments(key) == Cardinality({i \in 1..Len(key) : key[i] = "\\"})

\* a character of a segment: [A-Za-z0-9_] or whitespace
IsSegmentChar(c) == c \in {"A", "B", "C", "0", "_"} \/ IsSpace(c)

\* zero or more segments, each a backslash followed by one or more characters
RECURSIVE InKeyGrammar(_)
InKeyGrammar(key) ==
  \/ key = <<>>
  \/ \E n \in 2..Len(key) :
        /\ key[1] = "\\"
        /\ \A k \in 2..n : IsSegmentChar(key[k])
        /\ InKeyGrammar(SubSeq(key, n + 1, Len(key)))

\* the hive the constructor is given, HKLM when the option is empty
HiveOf(opts) == IF opts.hive = "" THEN HKLM ELSE opts.hive

\* the constructor has returned an object
Constructed == status # "new" /\ self # NoObject

\* the constructor has thrown and nothing else has happened
ConstructionFailed ==
  /\ status = "thrown" /\ exception = "Error"
  /\ self = NoObject /\ op = "none" /\ args = <<>>

\* C11: a key that violates the grammar of keys makes the construction fail with
\* an error and no object, and a key of the grammar with a valid hive constructs
C11_KeyGrammarDecidesConstruction ==
  status # "new" =>
    /\ ~InKeyGrammar(options.key) => ConstructionFailed
    /\ (InKeyGrammar(options.key) /\ indexOf(HIVES, options.hive) # -1) => Constructed

\* C12 as stated: a hive option that is not one of the five tokens, the empty
\* string included, makes the construction fail before any process is spawned,
\* and every object has its hive among the five
C12_HiveOutsideTheFiveFails ==
  status # "new" =>
    /\ indexOf(HIVES, options.hive) = -1 => ConstructionFailed
    /\ Constructed => indexOf(HIVES, self.hive) # -1

\* C12 amended: a hive option that is not empty and not one of the five tokens
\* makes the construction fail before any process is spawned; an empty hive
\* option stands for HKLM; every object has its hive among the five
C12_NonEmptyHiveOutsideTheFiveFails ==
  status # "new" =>
    /\ (options.hive # "" /\ indexOf(HIVES, options.hive) = -1) => ConstructionFailed
    /\ (options.hive = "" /\ Constructed) => self.hive = HKLM
    /\ Constructed => indexOf(HIVES, self.hive) # -1

\* C12: a long hive name was given and the construction has failed
C12_Witness ==
  options.hive = "HKEY_LOCAL_MACHINE" /\ ConstructionFailed

\* C14: of an object with a key of the grammar, the parent is always constructed,
\* has the same host and hive, and its key is the key without its last segment:
\* after n steps the key is the part of the original key that has n segments
\* less, and the empty key once n is at least the number of segments
C14_ParentRemovesTheLastSegment ==
  (Constructed /\ InKeyGrammar(options.key)) =>
    /\ exception # "Error"
    /\ self.host = options.host
    /\ self.hive = HiveOf(options)
    /\ Len(self.key) <= Len(options.key)
    /\ self.key = SubSeq(options.key, 1, Len(self.key))
    /\ InKeyGrammar(self.key)
    /\ Segments(self.key) = (IF Segments(options.key) > steps
                             THEN Segments(options.key) - steps ELSE 0)

\* C14: from a key of two segments on a host the parent was followed three times:
\* the root was reached and the third step stayed there
C14_Witness ==
  /\ options.key = <<"\\", "A", "\\", "A">>
  /\ options.host = "srv"
  /\ steps = 3
  /\ self.key = <<>>

\* ------------------------------------------------- paths and command lines

\* the path of a Location: the hive and the key, after \\\\host\\ when there is a host
ExpectedPath(this) ==
  IF this.host = ""
  THEN <<this.hive>> \o this.key
  ELSE <<"\\", "\\", this.host, "\\", this.hive>> \o this.key

\* the command table: the argument vector of operation m with parameters p
CommandTable(m, p, pathText) ==
  CASE m = "values" -> <<<<"QUERY">>, pathText>>
    [] m = "keys" -> <<<<"QUERY">>, pathText>>
    [] m = "get" -> <<<<"QUERY">>, pathText, <<"/v">>, p.name>>
    [] m = "set" -> IF p.name = <<>>
                    THEN <<<<"ADD">>, pathText, <<"/ve">>,
                           <<"/t">>, <<p.type>>, <<"/d">>, p.value, <<"/f">>>>
                    ELSE <<<<"ADD">>, pathText, <<"/v">>, p.name,
                           <<"/t">>, <<p.type>>, <<"/d">>, p.value, <<"/f">>>>
    [] m = "remove" -> IF p.name = <<>>
                       THEN <<<<"DELETE">>, pathText, <<"/f">>, <<"/ve">>>>
                       ELSE <<<<"DELETE">>, pathText, <<"/f">>, <<"/v">>, p.name>>
    [] m = "erase" -> <<<<"DELETE">>, pathText, <<"/f">>, <<"/va">>>>
    [] m = "create" -> <<<<"ADD">>, pathText>>
    [] m = "delete" -> <<<<"DELETE">>, pathText, <<"/f">>>>

\* a process was spawned for the call
Spawned == status \in {"running", "closed"}

\* C13: reading path never fails, so no operation ends in the error of reading
\* it, and the command of every operation carries the path of its Location: the
\* hive and the key, after two backslashes, the host and a backslash when the
\* host is not empty
C13_PathIsHiveAndKeyAfterTheHost ==
  op # "none" =>
    /\ exception # "ReferenceError"
    /\ (cbIsFunction /\ exception = "none") => (Spawned /\ args[2] = ExpectedPath(self))

\* C15: set with a type outside the seven tokens throws: no process is spawned
\* and the completion handler is not invoked; set with one of the seven tokens
\* does not throw the error of the type
C15_SetValidatesTheType ==
  op = "set" =>
    IF indexOf(REG_TYPES, params.type) = -1
    THEN /\ status = "thrown"
         /\ cbIsFunction => exception = "Error"
         /\ args = <<>>
         /\ delivered = <<>>
    ELSE exception # "Error"

\* C15: set was called with a completion handler and a type outside the tokens
C15_Witness ==
  /\ op = "set" /\ cbIsFunction
  /\ params.type = "REG_FOO"
  /\ status = "thrown" /\ exception = "Error"

\* C16: the argument vector handed to the process is the one of the command
\* table for the operation and its parameters, so set and remove take the same
\* names, the empty one, for the unnamed default value
C16_ArgumentsFollowTheCommandTable ==
  Spawned => args = CommandTable(method(op), params, ExpectedPath(self))

\* C16: set of the empty name was spawned, with /ve
C16_Witness ==
  /\ op = "set" /\ Spawned
  /\ params.name = <<>>
  /\ args[3] = <<"/ve">>

\* ------------------------------------------------------ records and ordering

\* C18: every record values or get delivers has the host, hive and key of the
\* Location of the call, a type among the seven tokens and a value that is not
\* empty
C18_RecordsBelongToTheLocation ==
  method(op) \in {"values", "get"} =>
    \A i \in 1..Len(delivered) : \A k \in 1..Len(delivered[i].res.items) :
      LET r == delivered[i].res.items[k]
      IN  /\ r.host = self.host /\ r.hive = self.hive /\ r.key = self.key
          /\ indexOf(REG_TYPES, r.type) # -1
          /\ r.value # <<>>

\* C18: get on a key that is not the root has delivered a record
C18_Witness ==
  /\ op = "get" /\ status = "closed"
  /\ self.key # <<>>
  /\ Len(delivered) = 1
  /\ delivered[1].res.kind = "item"
  /\ delivered[1].res.items[1].type = REG_DWORD

\* C20: in values, keys and get nothing is delivered while the exit code is
\* unknown, and the text the handlers hold is the concatenation, in order, of
\* the chunks the process has written
C20_ParsesAfterTheExit ==
  method(op) \in {"values", "keys", "get"} =>
    /\ exitCode = -1 => delivered = <<>>
    /\ buffer = emitted

\* --------------------------------------------------------- calls in flight

\* what the handler of operation o on this receives when the call runs alone and
\* its process writes out and exits with code
AloneOutcome(o, this, code, out) ==
  (IF o = "keys" THEN keys_onEnd(out, this) ELSE <<>>)
  \o onClose(o, code, out, this)

\* C17: whatever the interleaving of the events of the calls in flight, the
\* buffer of a call holds the output of its own process only, and once its
\* process has exited its handler has received what it would have received if
\* the call had run alone with that exit code and that output
C17_CallsDoNotInterfere ==
  \A c \in CallIds :
    /\ (procs[c].op \in {"values", "keys", "get"}) => procs[c].buffer = procs[c].emitted
    /\ procs[c].op = "create" => procs[c].buffer = <<>>
    /\ procs[c].status = "closed" =>
         procs[c].delivered
           = AloneOutcome(procs[c].op, procs[c].self, procs[c].exitCode, procs[c].emitted)

\* C17: values on one Location and keys on another have both completed, each
\* with events that happened while the other was in flight, from different output
C17_Witness ==
  /\ procs[1].op = "values" /\ procs[2].op = "keys"
  /\ procs[1].self # procs[2].self
  /\ procs[1].status = "closed" /\ procs[2].status = "closed"
  /\ procs[1].overlapped /\ procs[2].overlapped
  /\ procs[1].emitted # <<>> /\ procs[2].emitted # <<>>
  /\ procs[1].emitted # procs[2].emitted

\* --------------------------------------------------------------- round trip

\* C19: after a set that succeeded, a get of the same name whose process prints
\* the stored value and exits with code 0 delivers one record with the name, the
\* type and the value of the set
C19_GetReturnsWhatSetStored ==
  (rt.phase = "get" /\ status = "closed" /\ exitCode = 0 /\ chunks = 1) =>
    delivered = <<Invoke(NullError,
                         ItemResult(RegistryItem(self.host, self.hive, self.key,
                                                 rt.name, rt.type, rt.value)))>>

\* ------------------------------------------------- the completion handler

\* C21: an operation called with a cb that is not a function throws a TypeError
\* in the call itself, before a process is spawned
C21_CallWithoutHandlerThrows ==
  (op # "none" /\ ~cbIsFunction) =>
    /\ status = "thrown"
    /\ exception = "TypeError"
    /\ args = <<>>

\* ------------------------------------------------------- splitting into chunks

\* what operation m on this delivers when the whole output arrives as one chunk
OneChunkOutcome(m, this, code, out) ==
  (IF m = "keys" THEN keys_onEnd(onData(m, <<>>, out), this) ELSE <<>>)
  \o onClose(m, code, onData(m, <<>>, out), this)

\* C22: values, keys and get deliver what they deliver when the whole output
\* arrives as one chunk, however the output was split into chunks
C22_ResultIgnoresTheSplitting ==
  (method(op) \in {"values", "keys", "get"} /\ status = "closed" /\ emitted = output) =>
    delivered = OneChunkOutcome(method(op), self, exitCode, output)

====
